---- MODULE Spec2Model ----
(***************************************************************************)
(* Model of crates/cli/src/server.rs: ServerCommand::run, watch_templates, *)
(* shutdown_signal and the tracing middleware.                             *)
(*                                                                         *)
(* The processes are the ones the code creates:                            *)
(*   - run:    the body of ServerCommand::run (startup, watcher setup,     *)
(*             the hyper server with graceful shutdown);                   *)
(*   - watch:  the future spawned by watch_templates (select_all over the  *)
(*             subscriptions, try_filter_map, try_for_each, inspect_err);  *)
(*   - the environment: the change source (watchman) answering and         *)
(*             emitting, clients connecting, the OS delivering signals.    *)
(***************************************************************************)
EXTENDS Integers, Sequences, FiniteSets, TLC

\* ---------------------------------------------------------------- bounds
MaxRoots == 2        \* watch roots returned by templates.watch_roots()
MaxEmit == 3         \* messages the subscriptions emit in total
MaxConns == 2        \* connections the clients open
MaxRequests == 2     \* requests that travel through the middleware

Roots == 1..MaxRoots
Conns == 1..MaxConns

\* What Subscription::next() can return: SubscriptionData::FilesChanged with
\* files: Some(..), FilesChanged with files: None, any other SubscriptionData
\* (state enter/leave, canceled), or Err.
FilesChanged == "FilesChanged"
FilesChangedNoFiles == "FilesChangedNoFiles"
Control == "Control"
StreamError == "Err"
Messages == {FilesChanged, FilesChangedNoFiles, Control, StreamError}

Signals == {"SIGTERM", "SIGINT"}

VARIABLES
    watch,          \* ServerCommand.watch (the --watch flag)
    nroots,         \* length of templates.watch_roots()
    runPc,          \* position of ServerCommand::run
    setupIdx,       \* root the for loop of watch_templates is at
    setupStep,      \* what that iteration is awaiting
    outcome,        \* per root: how its iteration ended
    streams,        \* the Vec `streams`: roots with an open subscription
    emitted,        \* per root: everything its subscription has produced
    got,            \* per root: what sub.next() has returned, in order
    watchPc,        \* position of the spawned future
    reloading,      \* templates.reload() calls in progress
    reloadCount,    \* templates.reload() calls made
    reloadFailed,   \* templates.reload() calls that returned Err
    errLogged,      \* error! records written by inspect_err
    gen,            \* generation of the template snapshot in the shared cell
    conns,          \* per connection: request state
    handlers,       \* signal listeners installed by shutdown_signal
    installFailed,  \* the listener whose installation failed, if any
    pending,        \* signals received by the listeners, not yet consumed
    late,           \* signals delivered after shutdown_signal completed
    shutdownEvents, \* completions of the shutdown_signal future
    propagator,     \* the global text map propagator
    ambient,        \* opentelemetry::Context::current() of the worker
    req,            \* the request travelling through the layers
    resp,           \* the response travelling back through the layers
    pos,            \* the layer the request or response is at
    dir,            \* "idle", "in" (request) or "out" (response)
    span,           \* the tracing span of the request
    hdrLog          \* trace headers of the requests handled so far

watchVars == <<setupIdx, setupStep, outcome, streams, emitted, got, watchPc, reloading, reloadCount, reloadFailed, errLogged>>
sigVars == <<handlers, installFailed, pending, late, shutdownEvents>>
mwVars == <<propagator, ambient, req, resp, pos, dir, span, hdrLog>>
runVars == <<watch, nroots, runPc, watchVars, gen, conns, sigVars>>
vars == <<runVars, mwVars>>

NewConn == [st |-> "new", snap |-> 0, seen |-> {}]

\* ------------------------------------------------ trace contexts, layers
\* A trace header names a trace, is malformed, or is absent.
TraceIds == {"ta", "tb"}
TraceHeaders == TraceIds \cup {"absent", "malformed"}

\* The propagators the global propagator can be: the no-op default, one
\* that returns the current context when extraction fails, and one that
\* returns a context holding an empty span context when it fails.
Propagators == {"noop", "tracecontext", "jaeger"}

\* Line 69: opentelemetry::Context::new(), a context without a span.
Context_new == [span |-> "none", trace |-> "-"]

\* A context whose active span belongs to this process.
LocalContext == [span |-> "local", trace |-> "tl"]

\* The contexts that can be current on a worker when a request arrives.
AmbientContexts == {Context_new, LocalContext}

\* Status codes a response can carry (100..999), taken at and next to the
\* borders of every class.
Statuses ==
    {100, 101, 199, 200, 204, 299, 300, 302, 399,
     400, 404, 499, 500, 503, 599, 600, 999}

\* Lines 290-306: the layers of the ServiceBuilder, outermost first.
Layers == <<"trace", "timeout", "compression", "sensitive_headers">>

NoRequest == [hdr |-> "absent", cred |-> FALSE, marked |-> FALSE]
NoResponse == [status |-> 0, marked |-> FALSE]
NoSpan ==
    [made |-> FALSE, hdr |-> "absent", extracted |-> Context_new,
     parent |-> Context_new, request_cred |-> FALSE,
     request_marked |-> FALSE, finalized |-> FALSE,
     response_marked |-> FALSE, otel_status_code |-> "empty",
     http_status_code |-> 0]

InitMiddleware ==
    /\ propagator \in Propagators
    /\ ambient \in AmbientContexts
    /\ req = NoRequest
    /\ resp = NoResponse
    /\ pos = 0
    /\ dir = "idle"
    /\ span = NoSpan
    /\ hdrLog = <<>>

InitRun ==
    /\ watch \in BOOLEAN
    /\ nroots \in 1..MaxRoots
    /\ runPc = "startup"
    /\ setupIdx = 1
    /\ setupStep = "none"
    /\ outcome = [r \in Roots |-> "pending"]
    /\ streams = {}
    /\ emitted = [r \in Roots |-> <<>>]
    /\ got = [r \in Roots |-> <<>>]
    /\ watchPc = "none"
    /\ reloading = 0
    /\ reloadCount = 0
    /\ reloadFailed = 0
    /\ errLogged = 0
    /\ gen = 0
    /\ conns = [c \in Conns |-> NewConn]
    /\ handlers = FALSE
    /\ installFailed = "none"
    /\ pending = {}
    /\ late = {}
    /\ shutdownEvents = 0

Init == InitRun /\ InitMiddleware

\* The process is running: run has neither returned nor panicked, and no
\* signal has killed it. Spawned tasks live only as long as the process.
Alive == runPc \in {"startup", "connect", "setup", "listen", "serving", "draining"}

\* ------------------------------------------------------ ServerCommand::run
\* Lines 223-271: load the configuration, bind, connect to mail and database,
\* migrate, start the task queue, import the keys, load the templates. Each
\* step propagates its error with `?`.
AfterStartup(ok) ==
    IF ~ok THEN "failed" ELSE IF watch THEN "connect" ELSE "listen"

Startup(ok) ==
    /\ runPc = "startup"
    /\ runPc' = AfterStartup(ok)
    /\ UNCHANGED <<watch, nroots, watchVars, gen, conns, sigVars>>
    /\ UNCHANGED mwVars

\* A run that goes on to serve without calling watch_templates.
AfterConnect_Detached(ok) == IF ok THEN "listen" ELSE "failed"

\* Lines 275-278: Connector::new().connect().await.context(..)?
\* On success run calls watch_templates, whose first iteration canonicalizes
\* the first root.
AfterConnect(ok) == IF ok THEN "setup" ELSE "failed"

Connect(ok) ==
    /\ runPc = "connect"
    /\ runPc' = AfterConnect(ok)
    /\ setupStep' = IF ok THEN "canonicalize" ELSE "connect_err"
    /\ UNCHANGED <<watch, nroots, setupIdx, outcome, streams, emitted, got,
                   watchPc, reloading, reloadCount, reloadFailed, errLogged,
                   gen, conns, sigVars>>
    /\ UNCHANGED mwVars

\* ---------------------------------------------------------- watch_templates
\* A setup that logs a failing root and goes on to the next step.
Propagates_Skip(ok) == FALSE

\* The `?` of lines 171, 172 and 177: an Err leaves watch_templates at once.
Propagates(ok) == ~ok

\* A run that falls back to serving without hot reload when setup fails.
SetupFails_Fallback(r, why) ==
    /\ outcome' = [outcome EXCEPT ![r] = why]
    /\ runPc' = "listen"
    /\ UNCHANGED <<setupIdx, setupStep, streams, watchPc>>

\* The Err travels through `?` of watch_templates and `.context(..)?` of run
\* (lines 280-282): run returns it, nothing is spawned.
SetupFails(r, why) ==
    /\ outcome' = [outcome EXCEPT ![r] = why]
    /\ runPc' = "failed"
    /\ UNCHANGED <<setupIdx, setupStep, streams, watchPc>>

\* Line 171: CanonicalPath::canonicalize(root)?
Canonicalize(ok) ==
    /\ runPc = "setup"
    /\ setupStep = "canonicalize"
    /\ IF Propagates(ok)
       THEN SetupFails(setupIdx, "canonicalize_err")
       ELSE /\ setupStep' = "resolve"
            /\ outcome' = [outcome EXCEPT ![setupIdx] =
                              IF ok THEN @ ELSE "canonicalize_err"]
            /\ UNCHANGED <<runPc, setupIdx, streams, watchPc>>
    /\ UNCHANGED <<watch, nroots, emitted, got, reloading, reloadCount,
                   reloadFailed, errLogged, gen, conns, sigVars>>
    /\ UNCHANGED mwVars

\* Lines 170-172: client.resolve_root(..).await?
ResolveRoot(ok) ==
    /\ runPc = "setup"
    /\ setupStep = "resolve"
    /\ IF Propagates(ok)
       THEN SetupFails(setupIdx, "resolve_err")
       ELSE /\ setupStep' = "subscribe"
            /\ outcome' = [outcome EXCEPT ![setupIdx] =
                              IF ok THEN @ ELSE "resolve_err"]
            /\ UNCHANGED <<runPc, setupIdx, streams, watchPc>>
    /\ UNCHANGED <<watch, nroots, emitted, got, reloading, reloadCount,
                   reloadFailed, errLogged, gen, conns, sigVars>>
    /\ UNCHANGED mwVars

\* Lines 175-185: client.subscribe(..).await?, then streams.push(..). After
\* the last root, lines 188-218: the merged stream is built, the future is
\* spawned (tokio::spawn(fut)) and watch_templates returns Ok(()).
Subscribe(ok) ==
    /\ runPc = "setup"
    /\ setupStep = "subscribe"
    /\ IF Propagates(ok)
       THEN SetupFails(setupIdx, "subscribe_err")
       ELSE /\ outcome' = [outcome EXCEPT ![setupIdx] =
                              IF ~ok THEN "subscribe_err"
                              ELSE IF @ = "pending" THEN "ok" ELSE @]
            /\ streams' = IF ok THEN streams \cup {setupIdx} ELSE streams
            /\ IF setupIdx < nroots
               THEN /\ setupIdx' = setupIdx + 1
                    /\ setupStep' = "canonicalize"
                    /\ UNCHANGED <<runPc, watchPc>>
               ELSE /\ setupStep' = "done"
                    /\ watchPc' = "poll"
                    /\ runPc' = "listen"
                    /\ UNCHANGED setupIdx
    /\ UNCHANGED <<watch, nroots, emitted, got, reloading, reloadCount,
                   reloadFailed, errLogged, gen, conns, sigVars>>
    /\ UNCHANGED mwVars

\* The change source: the subscription of an open root produces a message.
TotalEmitted == LET Sum[r \in 0..MaxRoots] ==
                        IF r = 0 THEN 0 ELSE Len(emitted[r]) + Sum[r - 1]
                IN Sum[MaxRoots]

Emit(r, m) ==
    /\ Alive
    /\ r \in streams
    /\ TotalEmitted < MaxEmit
    /\ emitted' = [emitted EXCEPT ![r] = Append(@, m)]
    /\ UNCHANGED <<watch, nroots, runPc, setupIdx, setupStep, outcome, streams,
                   got, watchPc, reloading, reloadCount, reloadFailed,
                   errLogged, gen, conns, sigVars>>
    /\ UNCHANGED mwVars


\* A stream that hands out the newest message of the root.
sub_next_Newest(r) == emitted[r][Len(emitted[r])]

\* Lines 180-183: try_unfold over the subscription; each sub.next() returns
\* the first message of the root that has not been returned yet.
Ready(r) == r \in streams /\ Len(got[r]) < Len(emitted[r])
sub_next(r) == emitted[r][Len(got[r]) + 1]

\* A filter that lets every Ok item through.
try_filter_map_All(event) == TRUE

\* Lines 189-199: try_filter_map keeps FilesChanged with files: Some(..) and
\* maps everything else to Ok(None).
try_filter_map(event) == event = FilesChanged

\* A loop that takes the next item while a reload is still running
\* (for_each_concurrent instead of try_for_each).
try_for_each_ready_Concurrent(pc) == pc \in {"poll", "reload"}

\* Lines 201-202: try_for_each asks the stream for the next item only when
\* the future of the previous closure call has completed.
try_for_each_ready(pc) == pc = "poll"

\* A loop that survives an Err item.
AfterItem_Continue(m, pc) == pc

\* try_unfold / try_filter_map / try_for_each on an Err item (line 181): the
\* error ends the combinators; an Ok item leaves the loop where it is.
AfterItem(m, pc) == IF m = StreamError THEN "done" ELSE pc

\* try_for_each on the closure's result (lines 202-213): the closure returns
\* the Result of reload() with context; try_for_each stops at the first Err.
AfterReload(ok) == IF ok THEN "poll" ELSE "done"

\* A watch task that the shutdown signal cancels.
WatchRuns_UntilShutdown == Alive /\ shutdownEvents = 0

\* Line 216: the future is spawned on the runtime and never cancelled; it is
\* polled as long as the process lives, whatever run is doing.
WatchRuns == Alive

\* Lines 180-214, one turn of the spawned future: select_all yields the next
\* item of any subscription that has one; an Err ends the future through
\* inspect_err (line 214); an item the filter drops is skipped; any other
\* item makes the closure call templates.reload().
Poll(r) ==
    /\ WatchRuns
    /\ watchPc \in {"poll", "reload"}
    /\ try_for_each_ready(watchPc)
    /\ Ready(r)
    /\ LET m == sub_next(r)
           next == AfterItem(m, watchPc) IN
       /\ got' = [got EXCEPT ![r] = Append(@, m)]
       /\ IF next = "done"
          THEN /\ watchPc' = "done"
               /\ errLogged' = errLogged + 1
               /\ UNCHANGED <<reloading, reloadCount>>
          ELSE IF m # StreamError /\ try_filter_map(m)
          THEN /\ watchPc' = "reload"
               /\ reloading' = reloading + 1
               /\ reloadCount' = reloadCount + 1
               /\ UNCHANGED errLogged
          ELSE UNCHANGED <<watchPc, reloading, reloadCount, errLogged>>
    /\ UNCHANGED <<watch, nroots, runPc, setupIdx, setupStep, outcome, streams,
                   emitted, reloadFailed, gen, conns, sigVars>>
    /\ UNCHANGED mwVars

\* Templates::reload() succeeding: the freshly compiled templates replace the
\* shared snapshot in one step; the generation numbers the snapshots.
reload_swap(g) == g + 1

\* Lines 207-214: templates.reload() completes. Ok: the snapshot has been
\* swapped and try_for_each goes back to the stream. Err: try_for_each
\* returns it, inspect_err logs "Error while watching templates, stop
\* watching" and the spawned future is over.
ReloadDone(ok) ==
    /\ WatchRuns
    /\ watchPc = "reload"
    /\ reloading > 0
    /\ reloading' = reloading - 1
    /\ watchPc' = AfterReload(ok)
    /\ gen' = IF ok THEN reload_swap(gen) ELSE gen
    /\ reloadFailed' = IF ok THEN reloadFailed ELSE reloadFailed + 1
    /\ errLogged' = IF AfterReload(ok) = "done" THEN errLogged + 1 ELSE errLogged
    /\ UNCHANGED <<watch, nroots, runPc, setupIdx, setupStep, outcome, streams,
                   emitted, got, reloadCount, conns, sigVars>>
    /\ UNCHANGED mwVars

\* -------------------------------------------------- serving and shutdown
\* Lines 285-313 up to the first poll of the server future: the service is
\* built, Server::from_tcp(listener)? may fail, and the first poll of the
\* graceful server polls shutdown_signal(), which installs the SIGTERM and
\* SIGINT listeners with .expect(..) (lines 141-143) before anything is
\* accepted. A failed installation panics in that poll, on the task that
\* runs run.
ServeResults == {"ok", "from_tcp_err", "SIGTERM_install_err", "SIGINT_install_err"}

\* A shutdown_signal that logs a failed installation and lets the server run.
AfterListen_Ignore(res) == IF res = "from_tcp_err" THEN "failed" ELSE "serving"

AfterListen(res) ==
    CASE res = "ok" -> "serving"
      [] res = "from_tcp_err" -> "failed"
      [] res \in {"SIGTERM_install_err", "SIGINT_install_err"} -> "panicked"

Serve(res) ==
    /\ runPc = "listen"
    /\ runPc' = AfterListen(res)
    /\ handlers' = (res = "ok")
    /\ installFailed' = CASE res = "SIGTERM_install_err" -> "SIGTERM"
                           [] res = "SIGINT_install_err" -> "SIGINT"
                           [] OTHER -> installFailed
    /\ UNCHANGED <<watch, nroots, watchVars, gen, conns, pending, late,
                   shutdownEvents>>
    /\ UNCHANGED mwVars

\* An accept loop that keeps accepting while the server drains.
Accepting_WhileDraining == runPc \in {"serving", "draining"}

\* An accept loop that stops when the watch task has ended.
Accepting_WhileWatching == runPc = "serving" /\ watchPc # "done"

\* Line 312: the accept loop of the graceful server takes connections while
\* the shutdown future is pending; it does not look at the watcher.
Accepting == runPc = "serving"

\* Lines 310-313: the connections the graceful server still drives.
Driving == runPc \in {"serving", "draining"}

InFlight(c) == conns[c].st \in {"inflight", "rendering", "reading", "rendered"}
Rendering(c) == conns[c].st \in {"rendering", "reading", "rendered"}

\* A client connects and its request enters the service.
Accept(c) ==
    /\ Accepting
    /\ conns[c].st = "new"
    /\ \A d \in Conns : d < c => conns[d].st # "new"
    /\ conns' = [conns EXCEPT ![c].st = "inflight"]
    /\ UNCHANGED <<watch, nroots, runPc, watchVars, gen, sigVars>>
    /\ UNCHANGED mwVars

\* The handler starts rendering: it copies the current snapshot reference out
\* of the shared cell.
RenderStart(c) ==
    /\ Driving
    /\ conns[c].st = "inflight"
    /\ conns' = [conns EXCEPT ![c].st = "rendering", ![c].snap = gen]
    /\ UNCHANGED <<watch, nroots, runPc, watchVars, gen, sigVars>>
    /\ UNCHANGED mwVars

\* A lookup that goes through the shared cell each time.
ReadTemplate_Current(held, current) == current

\* One template lookup of a render goes through the reference the render
\* holds, not through the shared cell.
ReadTemplate(held, current) == held

\* A render looks up two templates (the page and the layout it extends).
RenderRead(c) ==
    /\ Driving
    /\ conns[c].st \in {"rendering", "reading"}
    /\ conns' = [conns EXCEPT
                   ![c].st = IF @ = "rendering" THEN "reading" ELSE "rendered",
                   ![c].seen = @ \cup {ReadTemplate(conns[c].snap, gen)}]
    /\ UNCHANGED <<watch, nroots, runPc, watchVars, gen, sigVars>>
    /\ UNCHANGED mwVars

\* The response is written and the request is over.
Respond(c) ==
    /\ Driving
    /\ conns[c].st = "rendered"
    /\ conns' = [conns EXCEPT ![c] = [st |-> "done", snap |-> 0, seen |-> {}]]
    /\ UNCHANGED <<watch, nroots, runPc, watchVars, gen, sigVars>>
    /\ UNCHANGED mwVars

\* Lines 141-148: the Signal listeners `term` and `int` live as long as the
\* shutdown_signal future is pending.
ListenersAlive == runPc = "serving"

\* The OS delivers SIGTERM or SIGINT. Before the listeners are installed the
\* default disposition ends the process. While shutdown_signal is pending
\* its listener records the signal. After it has completed the listeners are
\* gone; tokio keeps its handler installed, so the signal is swallowed.
Signal(k) ==
    /\ Alive
    /\ IF ~handlers
       THEN /\ runPc' = "killed"
            /\ UNCHANGED <<pending, late>>
       ELSE /\ pending' = IF ListenersAlive THEN pending \cup {k} ELSE pending
            /\ late' = IF ListenersAlive THEN late ELSE late \cup {k}
            /\ UNCHANGED runPc
    /\ UNCHANGED <<watch, nroots, watchVars, gen, conns, handlers,
                   installFailed, shutdownEvents>>
    /\ UNCHANGED mwVars

\* A select! that waits for SIGTERM only.
select_arms_TermOnly == {"SIGTERM"}

\* Lines 145-148: the arms of tokio::select!, one per signal kind.
select_arms == {"SIGTERM", "SIGINT"}

\* Lines 145-148 and 312: an arm of select! is ready, shutdown_signal()
\* completes, and the graceful server stops accepting and starts draining.
ShutdownSignal(k) ==
    /\ ListenersAlive
    /\ k \in select_arms
    /\ k \in pending
    /\ shutdownEvents' = shutdownEvents + 1
    /\ pending' = {}
    /\ runPc' = "draining"
    /\ UNCHANGED <<watch, nroots, watchVars, gen, conns, handlers,
                   installFailed, late>>
    /\ UNCHANGED mwVars

\* Lines 310-315: every connection has finished; the server future resolves
\* and run returns Ok(()).
GracefulDone ==
    /\ runPc = "draining"
    /\ \A c \in Conns : ~InFlight(c)
    /\ dir = "idle"
    /\ runPc' = "returned"
    /\ UNCHANGED <<watch, nroots, watchVars, gen, conns, sigVars>>
    /\ UNCHANGED mwVars

\* ------------------------------------------------------------ middleware
\* Lines 62-64: propagator.extract(&extractor), which extracts into the
\* current context.
extract(p, h, current) ==
    CASE p = "noop" -> current
      [] p = "tracecontext" ->
            IF h \in TraceIds THEN [span |-> "remote", trace |-> h]
            ELSE current
      [] p = "jaeger" ->
            IF h \in TraceIds THEN [span |-> "remote", trace |-> h]
            ELSE [span |-> "invalid", trace |-> "-"]

\* Line 66: cx.span().span_context().is_remote().
is_remote(cx) == cx.span = "remote"

\* A make_span that attaches whatever extraction returned.
parent_context_Extracted(cx) == cx

\* Lines 66-70: the extracted context if remote, else a new context.
parent_context(cx) == IF is_remote(cx) THEN cx ELSE Context_new

\* Line 74: cx.attach() makes cx current and returns a guard holding the
\* context that was current.
attach(cx, current) == [current |-> cx, guard |-> current]

\* A guard that leaves the attached context current.
ContextGuard_drop_Leak(a) == a.current

\* Line 105: _guard goes out of scope, the context it holds is current again.
ContextGuard_drop(a) == a.guard

\* Lines 112-118: the classification of a status.
is_success(s) == 200 <= s /\ s < 300
is_client_error(s) == 400 <= s /\ s < 500
is_server_error(s) == 500 <= s /\ s < 600

otel_status(s) ==
    IF is_success(s) THEN "ok"
    ELSE IF is_client_error(s) \/ is_server_error(s) THEN "error"
    ELSE "unset"

\* Line 120: StatusCode::as_u16.
as_u16(s) == s

\* An on_response that records the class of the status as its code.
on_response_Class(s) ==
    [otel_status_code |-> otel_status(s),
     http_status_code |-> (s \div 100) * 100]

\* Lines 110-121: what on_response records on the span.
on_response(s) ==
    [otel_status_code |-> otel_status(s), http_status_code |-> as_u16(s)]

\* The request is inside the layer named l.
Inside(l) ==
    /\ dir # "idle"
    /\ \E i \in 1..Len(Layers) :
          /\ Layers[i] = l
          /\ (pos > i \/ (dir = "out" /\ pos = i))

\* A request arrives on an accepted connection and enters the service.
Arrive(h, c) ==
    /\ Accepting
    /\ dir = "idle"
    /\ Len(hdrLog) < MaxRequests
    /\ req' = [hdr |-> h, cred |-> c, marked |-> FALSE]
    /\ resp' = NoResponse
    /\ span' = NoSpan
    /\ pos' = 1
    /\ dir' = "in"
    /\ hdrLog' = Append(hdrLog, h)
    /\ UNCHANGED <<propagator, ambient>>
    /\ UNCHANGED runVars

\* Lines 56-105: TraceLayer calls make_span with the request.
make_span ==
    /\ Driving
    /\ dir = "in"
    /\ pos <= Len(Layers)
    /\ Layers[pos] = "trace"
    /\ LET cx == parent_context(extract(propagator, req.hdr, ambient))
           a  == attach(cx, ambient)
       IN  /\ span' = [NoSpan EXCEPT
                         !.made = TRUE,
                         !.hdr = req.hdr,
                         !.extracted = extract(propagator, req.hdr, ambient),
                         !.parent = a.current,
                         !.request_cred = req.cred,
                         !.request_marked = req.marked]
           /\ ambient' = ContextGuard_drop(a)
    /\ pos' = pos + 1
    /\ UNCHANGED <<propagator, req, resp, dir, hdrLog>>
    /\ UNCHANGED runVars

\* Lines 298-300: the timeout and compression layers hand the request on.
PassRequest ==
    /\ Driving
    /\ dir = "in"
    /\ pos <= Len(Layers)
    /\ Layers[pos] \in {"timeout", "compression"}
    /\ pos' = pos + 1
    /\ UNCHANGED <<propagator, ambient, req, resp, dir, span, hdrLog>>
    /\ UNCHANGED runVars

\* Lines 301-305: SetSensitiveHeadersLayer marks the request's
\* Authorization and Cookie headers.
MarkRequest ==
    /\ Driving
    /\ dir = "in"
    /\ pos <= Len(Layers)
    /\ Layers[pos] = "sensitive_headers"
    /\ req' = [req EXCEPT !.marked = TRUE]
    /\ pos' = pos + 1
    /\ UNCHANGED <<propagator, ambient, resp, dir, span, hdrLog>>
    /\ UNCHANGED runVars

\* Line 306: the wrapped service answers.
Service(s) ==
    /\ Driving
    /\ dir = "in"
    /\ pos = Len(Layers) + 1
    /\ resp' = [status |-> s, marked |-> FALSE]
    /\ dir' = "out"
    /\ pos' = Len(Layers)
    /\ UNCHANGED <<propagator, ambient, req, span, hdrLog>>
    /\ UNCHANGED runVars

\* Lines 301-305: SetSensitiveHeadersLayer marks the response's headers.
MarkResponse ==
    /\ Driving
    /\ dir = "out"
    /\ Layers[pos] = "sensitive_headers"
    /\ resp' = [resp EXCEPT !.marked = TRUE]
    /\ pos' = pos - 1
    /\ UNCHANGED <<propagator, ambient, req, dir, span, hdrLog>>
    /\ UNCHANGED runVars

\* Lines 298-300: the compression and timeout layers hand the response on.
PassResponse ==
    /\ Driving
    /\ dir = "out"
    /\ Layers[pos] \in {"timeout", "compression"}
    /\ pos' = pos - 1
    /\ UNCHANGED <<propagator, ambient, req, resp, dir, span, hdrLog>>
    /\ UNCHANGED runVars

\* Line 298: the timeout elapses while the request is inside the layer;
\* the call ends in an error and on_response is not called.
Elapsed ==
    /\ Driving
    /\ Inside("timeout")
    /\ \E i \in 1..Len(Layers) : Layers[i] = "trace" /\ i < pos
    /\ resp' = NoResponse
    /\ dir' = "idle"
    /\ pos' = 0
    /\ UNCHANGED <<propagator, ambient, req, span, hdrLog>>
    /\ UNCHANGED runVars

\* Lines 110-123: TraceLayer calls on_response with the response.
OnResponse ==
    /\ Driving
    /\ dir = "out"
    /\ Layers[pos] = "trace"
    /\ span' = [span EXCEPT
                  !.finalized = TRUE,
                  !.response_marked = resp.marked,
                  !.otel_status_code = on_response(resp.status).otel_status_code,
                  !.http_status_code = on_response(resp.status).http_status_code]
    /\ pos' = pos - 1
    /\ dir' = IF pos = 1 THEN "idle" ELSE "out"
    /\ UNCHANGED <<propagator, ambient, req, resp, hdrLog>>
    /\ UNCHANGED runVars

MiddlewareStep ==
    \/ \E h \in TraceHeaders, c \in BOOLEAN : Arrive(h, c)
    \/ make_span
    \/ PassRequest
    \/ MarkRequest
    \/ \E s \in Statuses : Service(s)
    \/ MarkResponse
    \/ PassResponse
    \/ Elapsed
    \/ OnResponse

\* ------------------------------------------------------- specifications
RunStep ==
    \/ \E ok \in BOOLEAN : Startup(ok)
    \/ \E ok \in BOOLEAN : Connect(ok)
    \/ \E ok \in BOOLEAN : Canonicalize(ok)
    \/ \E ok \in BOOLEAN : ResolveRoot(ok)
    \/ \E ok \in BOOLEAN : Subscribe(ok)
    \/ \E res \in ServeResults : Serve(res)
    \/ \E k \in Signals : Signal(k)
    \/ \E k \in Signals : ShutdownSignal(k)
    \/ GracefulDone

WatchStep ==
    \/ \E r \in Roots : Poll(r)
    \/ \E ok \in BOOLEAN : ReloadDone(ok)

ClientStep ==
    \/ \E c \in Conns : Accept(c)
    \/ \E c \in Conns : RenderStart(c)
    \/ \E c \in Conns : RenderRead(c)
    \/ \E c \in Conns : Respond(c)

\* The whole program with every kind of message from every root.
Next ==
    \/ RunStep
    \/ \E r \in Roots, m \in Messages : Emit(r, m)
    \/ WatchStep
    \/ ClientStep
    \/ MiddlewareStep

Spec == Init /\ [][Next]_vars

\* The program before any request: the propagator and the worker's context
\* as the runtime leaves them when nothing has been configured or attached.
InitQuiet == Init /\ propagator = "noop" /\ ambient = Context_new

\* The program while no client connects.
NextWatch ==
    \/ RunStep
    \/ \E r \in Roots, m \in Messages : Emit(r, m)
    \/ WatchStep

SpecWatch == InitQuiet /\ [][NextWatch]_vars

\* The program with clients, one watch root, and a change source that
\* produces file changes and stream errors only.
InitServe == InitQuiet /\ nroots = 1

NextServe ==
    \/ RunStep
    \/ \E r \in Roots, m \in {FilesChanged, StreamError} : Emit(r, m)
    \/ WatchStep
    \/ ClientStep

SpecServe == InitServe /\ [][NextServe]_vars

\* The program while the change source stays silent, under the scheduling
\* the runtime gives: a ready select! arm is polled, a drained server
\* resolves, and a request that can make progress does.
NextQuiet ==
    \/ RunStep
    \/ ClientStep

LiveSpec ==
    /\ InitQuiet
    /\ [][NextQuiet]_vars
    /\ WF_vars(\E k \in Signals : ShutdownSignal(k))
    /\ WF_vars(GracefulDone)
    /\ \A c \in Conns :
          WF_vars(RenderStart(c) \/ RenderRead(c) \/ Respond(c))

\* The server with one watch root and a silent change source, while
\* requests travel through the middleware.
InitSpan == Init /\ nroots = 1

NextSpan ==
    \/ RunStep
    \/ MiddlewareStep

SpecSpan == InitSpan /\ [][NextSpan]_vars

\* ------------------------------------------------------------- properties
RECURSIVE CountIn(_, _)
CountIn(seq, m) ==
    IF seq = <<>> THEN 0
    ELSE (IF Head(seq) = m THEN 1 ELSE 0) + CountIn(Tail(seq), m)

RECURSIVE DeliveredUpTo(_, _)
DeliveredUpTo(r, m) ==
    IF r = 0 THEN 0 ELSE CountIn(got[r], m) + DeliveredUpTo(r - 1, m)

\* Messages of kind m that the subscriptions have delivered to the loop.
Delivered(m) == DeliveredUpTo(MaxRoots, m)

\* A subscription's next() has failed and the loop has seen it.
StreamErrDelivered == Delivered(StreamError) > 0

\* C1: a failed templates.reload() is only logged and the watch loop goes on:
\* as long as no subscription has yielded a stream error, a reload that
\* returned an error leaves the loop running, so the next batch is reloaded.
C1_ReloadFailureKeepsWatching ==
    (reloadFailed > 0 /\ ~StreamErrDelivered) => watchPc \in {"poll", "reload"}

\* C2: once a subscription yields a stream error the loop logs it exactly
\* once and is over for good: nothing more is taken from any root, no reload
\* is invoked afterwards, and the step that ends the loop leaves run alone.
C2_StreamErrorEndsLoop ==
    /\ [](StreamErrDelivered =>
            /\ watchPc = "done"
            /\ errLogged = 1
            /\ reloading = 0)
    /\ [][StreamErrDelivered =>
            /\ got' = got
            /\ reloadCount' = reloadCount
            /\ errLogged' = errLogged
            /\ watchPc' = "done"]_vars
    /\ [][(~StreamErrDelivered /\ StreamErrDelivered') => runPc' = runPc]_vars

\* A stream error was delivered after a reload, and a healthy root has a
\* files-changed batch waiting that will never be reloaded.
C2_Witness ==
    /\ StreamErrDelivered
    /\ reloadCount >= 1
    /\ Alive
    /\ \E r \in Roots :
          /\ CountIn(emitted[r], StreamError) = 0
          /\ Ready(r)
          /\ sub_next(r) = FilesChanged

\* C3: setup is all-or-nothing: watch_templates returns Ok exactly when
\* every root canonicalized, resolved and subscribed; when a root fails, run
\* fails, nothing is spawned and no reload is ever invoked.
SetupOk == setupStep = "done"
RootFailed(r) == outcome[r] \in {"canonicalize_err", "resolve_err", "subscribe_err"}

C3_SetupAllOrNothing ==
    /\ SetupOk <=> (\A r \in 1..nroots : outcome[r] = "ok")
    /\ SetupOk => streams = 1..nroots
    /\ watchPc # "none" => SetupOk
    /\ (\E r \in Roots : RootFailed(r)) =>
          /\ runPc = "failed"
          /\ ~SetupOk
          /\ watchPc = "none"
          /\ reloadCount = 0
          /\ \A r \in Roots : got[r] = <<>>

\* The second root failed after the first had been subscribed and had
\* already produced a files-changed batch.
C3_Witness ==
    /\ nroots = 2
    /\ outcome[1] = "ok"
    /\ 1 \in streams
    /\ RootFailed(2)
    /\ CountIn(emitted[1], FilesChanged) > 0
    /\ runPc = "failed"

\* C4: the number of templates.reload() invocations equals the number of
\* files-changed batches (FilesChanged with a file list) the subscriptions
\* have delivered to the loop, whatever the interleaving of the roots.
C4_ReloadPerBatch == reloadCount = Delivered(FilesChanged)

\* Both roots have delivered a files-changed batch, and messages the filter
\* drops have been delivered too.
C4_Witness ==
    /\ CountIn(got[1], FilesChanged) > 0
    /\ CountIn(got[2], FilesChanged) > 0
    /\ Delivered(Control) + Delivered(FilesChangedNoFiles) > 0
    /\ reloadCount = 2

\* C5: reloads never overlap: at most one reload() is in progress, and a
\* reload is invoked only when none is in progress.
C5_NoOverlap ==
    /\ [](reloading <= 1 /\ (reloading = 1 <=> watchPc = "reload"))
    /\ [][reloadCount' > reloadCount => (reloading = 0 /\ reloading' = 1)]_vars

\* A reload is running while both roots have a files-changed batch ready.
C5_Witness ==
    /\ watchPc = "reload"
    /\ reloading = 1
    /\ \A r \in {1, 2} : Ready(r) /\ sub_next(r) = FilesChanged

\* C6: after the shutdown event has fired no new connection is accepted,
\* run does not return while a request is in flight, every request that was
\* in flight completes, and then run returns.
C6_GracefulShutdown ==
    /\ [][shutdownEvents >= 1 =>
            \A c \in Conns : conns[c].st = "new" => conns'[c].st = "new"]_vars
    /\ [](runPc = "returned" => \A c \in Conns : ~InFlight(c))
    /\ \A c \in Conns :
          (shutdownEvents >= 1 /\ InFlight(c)) ~> (conns[c].st = "done")
    /\ (shutdownEvents >= 1) ~> (runPc = "returned")

\* The shutdown event has fired while one request was in flight and another
\* client had not connected yet.
C6_Witness ==
    /\ runPc = "draining"
    /\ shutdownEvents = 1
    /\ InFlight(1)
    /\ conns[2].st = "new"

\* C7: SIGTERM and SIGINT are treated alike: the first signal of either kind
\* that reaches the listeners completes the shutdown future, and the future
\* completes once however many signals of either kind follow.
C7_EitherSignalOnce ==
    /\ [](shutdownEvents <= 1)
    /\ \A k \in Signals :
          (ListenersAlive /\ k \in pending) ~> (shutdownEvents = 1)
    /\ [][shutdownEvents = 1 => shutdownEvents' = 1]_vars

\* The shutdown future has completed and signals of both kinds have arrived
\* since.
C7_Witness ==
    /\ shutdownEvents = 1
    /\ late = Signals

\* C8: no render is torn: every lookup of a render sees the snapshot the
\* render copied when it started, a render that starts takes the snapshot
\* current at that moment, and a swap does not change the snapshot a running
\* render holds.
C8_NoTornReload ==
    /\ [](\A c \in Conns :
            /\ Cardinality(conns[c].seen) <= 1
            /\ Rendering(c) =>
                  /\ conns[c].seen \subseteq {conns[c].snap}
                  /\ conns[c].snap <= gen)
    /\ [][\A c \in Conns :
            (conns[c].st = "inflight" /\ conns'[c].st = "rendering")
               => conns'[c].snap = gen]_vars
    /\ [][\A c \in Conns :
            (Rendering(c) /\ conns'[c].st # "done")
               => conns'[c].snap = conns[c].snap]_vars

\* After a swap, one render is still reading the snapshot it started with
\* while another one, started after the swap, reads the new snapshot.
C8_Witness ==
    \E c, d \in Conns :
        /\ conns[c].st = "reading"
        /\ conns[c].snap < gen
        /\ conns[c].seen = {conns[c].snap}
        /\ Rendering(d)
        /\ conns[d].snap = gen
        /\ conns[d].seen = {gen}

\* C9: the end of the watch task leaves request serving alone: the step that
\* ends it changes neither run nor the requests nor the snapshot, and once
\* it has ended the server, until shutdown, can still accept the next
\* connection and every request in flight can still make its next step, with
\* the snapshot staying the last good one.
NextConn(c) ==
    /\ conns[c].st = "new"
    /\ \A d \in Conns : d < c => conns[d].st # "new"

C9_ServingSurvivesWatcher ==
    /\ []((watchPc = "done" /\ runPc = "serving" /\ shutdownEvents = 0) =>
            \A c \in Conns : NextConn(c) => ENABLED Accept(c))
    /\ []((watchPc = "done" /\ Driving) =>
            \A c \in Conns : InFlight(c) =>
                ENABLED (RenderStart(c) \/ RenderRead(c) \/ Respond(c)))
    /\ [][(watchPc # "done" /\ watchPc' = "done") =>
            (runPc' = runPc /\ conns' = conns /\ gen' = gen)]_vars
    /\ [][watchPc = "done" => gen' = gen]_vars

\* The watch task has ended after a successful reload; the server is serving
\* a request with the reloaded snapshot and another client has yet to
\* connect.
C9_Witness ==
    /\ watchPc = "done"
    /\ runPc = "serving"
    /\ gen = 1
    /\ Rendering(1)
    /\ conns[1].snap = 1
    /\ conns[2].st = "new"

\* C10, as claimed: startup does not wait on the change source: whenever run
\* is awaiting an answer to resolve_root or subscribe, it can go on to the
\* point of accepting connections without that answer.
AwaitingChangeSource ==
    runPc = "setup" /\ setupStep \in {"resolve", "subscribe"}

C10_StartupNeverWaitsOnChangeSource ==
    AwaitingChangeSource => ENABLED Serve("ok")

\* C10, amended: run awaits the setup of every root before it serves, and
\* only the watch loop is detached: once watch_templates has returned, run
\* reaches the point of accepting connections whatever the loop is doing.
C10_SetupAwaitedLoopDetached ==
    /\ (watch /\ runPc \in {"listen", "serving", "draining", "returned"}) =>
          (SetupOk /\ streams = 1..nroots /\ watchPc # "none")
    /\ runPc = "listen" => ENABLED Serve("ok")

\* The server is accepting while the watch loop is still waiting for its
\* first message.
C10_Witness ==
    /\ watch
    /\ runPc = "serving"
    /\ watchPc = "poll"
    /\ TotalEmitted = 0

\* C11, as claimed: once the shutdown signal has been raised the watch loop
\* invokes no further reload.
C11_WatcherStopsOnShutdown ==
    [][shutdownEvents >= 1 => reloadCount' = reloadCount]_vars

\* C11, amended: the shutdown signal is consumed by the accept loop only.
\* Raising it changes nothing in the watch loop, which can still take the
\* next batch while the server drains; the loop takes nothing and reloads
\* nothing once the process has ended.
C11_WatcherOutlivesShutdown ==
    /\ [][shutdownEvents' # shutdownEvents =>
            UNCHANGED <<watchPc, got, reloading, reloadCount>>]_vars
    /\ [](\A r \in Roots :
            (runPc = "draining" /\ watchPc = "poll" /\ Ready(r))
               => ENABLED Poll(r))
    /\ [][~Alive => (reloadCount' = reloadCount /\ got' = got)]_vars

\* The shutdown signal has been raised, the server is draining, and the
\* watch loop is about to take a files-changed batch.
C11_Witness ==
    /\ runPc = "draining"
    /\ shutdownEvents = 1
    /\ watchPc = "poll"
    /\ \E r \in Roots : Ready(r) /\ sub_next(r) = FilesChanged

\* C12: a listener that cannot be installed ends the process abnormally
\* before anything is accepted: run has panicked, no listener is installed,
\* and no connection is accepted then or later.
C12_InstallFailureAborts ==
    /\ [](installFailed # "none" =>
            /\ runPc = "panicked"
            /\ ~handlers
            /\ shutdownEvents = 0
            /\ \A c \in Conns : conns[c].st = "new")
    /\ [][installFailed # "none" => (conns' = conns /\ runPc' = runPc)]_vars

\* The SIGINT listener could not be installed after the watch task had been
\* spawned.
C12_Witness ==
    /\ installFailed = "SIGINT"
    /\ runPc = "panicked"
    /\ watchPc = "poll"

\* C13: the merged sequence keeps each root's order: what the loop has
\* received from a root is a prefix of what that root's subscription
\* produced, it grows by the next message of that root and by nothing else,
\* and while the loop waits no root with a message is kept from delivering.
IsPrefix(a, b) == Len(a) <= Len(b) /\ \A i \in 1..Len(a) : a[i] = b[i]

C13_PerRootOrder ==
    /\ [](\A r \in Roots : IsPrefix(got[r], emitted[r]))
    /\ [][\A r \in Roots :
            \/ got'[r] = got[r]
            \/ /\ Len(got[r]) < Len(emitted[r])
               /\ got'[r] = Append(got[r], emitted[r][Len(got[r]) + 1])]_vars
    /\ [](\A r \in Roots :
            (WatchRuns /\ watchPc = "poll" /\ Ready(r)) => ENABLED Poll(r))

\* Two different messages of root 1 and one message of root 2 have been
\* delivered.
C13_Witness ==
    /\ Len(got[1]) = 2
    /\ got[1][1] # got[1][2]
    /\ Len(got[2]) = 1

\* C14: a message that is not a files-changed notification with a file list
\* is dropped silently: taking it starts no reload, logs no error and leaves
\* the loop waiting for the next message.
C14_ControlDroppedSilently ==
    [][\A r \in Roots :
         (/\ Len(got'[r]) > Len(got[r])
          /\ got'[r][Len(got'[r])] \in {Control, FilesChangedNoFiles})
         => /\ reloadCount' = reloadCount
            /\ reloading' = reloading
            /\ errLogged' = errLogged
            /\ gen' = gen
            /\ watchPc' = "poll"]_vars

\* A control message and a files-changed message without a file list have
\* been dropped, and the files-changed batch that followed is being reloaded.
C14_Witness ==
    /\ Delivered(Control) = 1
    /\ Delivered(FilesChangedNoFiles) = 1
    /\ Delivered(FilesChanged) = 1
    /\ \E r \in Roots : Len(got[r]) >= 2 /\ got[r][Len(got[r])] = FilesChanged
    /\ watchPc = "reload"
    /\ errLogged = 0

\* C18: with --watch, a failed watcher setup (the connection to the change
\* source, or any root) makes run return the error before it serves: no
\* listener is installed, no connection is accepted, nothing is spawned.
SetupFailed == setupStep = "connect_err" \/ \E r \in Roots : RootFailed(r)

C18_NoServingAfterSetupFailure ==
    SetupFailed =>
        /\ watch
        /\ runPc = "failed"
        /\ ~handlers
        /\ watchPc = "none"
        /\ \A c \in Conns : conns[c].st = "new"

\* Subscribing the second root failed after the first had been subscribed.
C18_Witness ==
    /\ outcome[2] = "subscribe_err"
    /\ streams = {1}
    /\ runPc = "failed"

\* The classification the specification gives a status: success and
\* redirection are "ok", client and server errors "error", the rest "unset".
ClaimedStatus(s) ==
    IF 200 <= s /\ s < 400 THEN "ok"
    ELSE IF 400 <= s /\ s < 600 THEN "error"
    ELSE "unset"

\* C15, as claimed: the span of every response carries "ok" for a 2xx or 3xx
\* status, "error" for a 4xx or 5xx status and "unset" for any other.
C15_RedirectionIsOk ==
    span.finalized => span.otel_status_code = ClaimedStatus(resp.status)

\* C16: the span of every response carries the literal status code as
\* http.status_code; 200 is "ok", 404 and 500 are "error", 101 is "unset".
C16_LiteralStatusCode ==
    span.finalized =>
        /\ span.http_status_code = resp.status
        /\ span.otel_status_code \in {"ok", "error", "unset"}
        /\ (resp.status = 200 => span.otel_status_code = "ok")
        /\ (resp.status \in {404, 500} => span.otel_status_code = "error")
        /\ (resp.status = 101 => span.otel_status_code = "unset")

\* A 404 response has been recorded on the span.
C16_Witness ==
    /\ span.finalized
    /\ resp.status = 404
    /\ span.http_status_code = 404
    /\ span.otel_status_code = "error"

\* C17: the span's parent is the extracted context when that context holds
\* a remote span and a new, empty context otherwise: never the context
\* with the empty span context a failed extraction returns, never the
\* worker's own context, and always a new context without a trace header.
C17_ParentIffRemote ==
    span.made =>
        /\ (is_remote(span.extracted) => span.parent = span.extracted)
        /\ (~is_remote(span.extracted) =>
               /\ span.parent = Context_new
               /\ span.parent.span \notin {"invalid", "local"})
        /\ (span.hdr = "absent" => span.parent = Context_new)

\* Extraction failed on a malformed header and returned a context with an
\* empty span context, on a worker whose own context holds a local span;
\* the span was made under a new context.
C17_Witness ==
    /\ span.made
    /\ propagator = "jaeger"
    /\ ambient = LocalContext
    /\ span.hdr = "malformed"
    /\ span.extracted.span = "invalid"
    /\ span.parent = Context_new

\* C19: make_span leaves the worker's current context as it found it, so
\* the parent of a span is what the request's own header gives under the
\* propagator, whatever the requests before it carried.
C19_AttachedContextIsScoped ==
    /\ [][ambient' = ambient]_vars
    /\ [](span.made =>
            /\ span.parent =
                 parent_context(extract(propagator, span.hdr, Context_new))
            /\ span.parent \in
                 {Context_new, [span |-> "remote", trace |-> span.hdr]})

\* A request without a trace header follows, on the same worker, a request
\* that carried a remote trace; its span has been made under a new context.
C19_Witness ==
    /\ Len(hdrLog) = 2
    /\ hdrLog[1] \in TraceIds
    /\ hdrLog[2] = "absent"
    /\ propagator = "tracecontext"
    /\ span.made
    /\ span.hdr = "absent"
    /\ span.parent = Context_new

\* C20, as claimed: the Authorization and Cookie headers are marked
\* sensitive when the tracing layer sees the request (make_span) and when
\* it sees the response (on_response).
C20_MarkedBeforeTraced ==
    /\ (span.made /\ span.request_cred => span.request_marked)
    /\ (span.finalized => span.response_marked)

====
